---- MODULE Spec2Model ----
(***************************************************************************)
(* Call-routing state machine of the call center server                    *)
(* ("Advanced implementation/queue/queueManager.py"): QueueManager with    *)
(* its operators, wait queue, active-call registry and timer registry,     *)
(* the reactor's pending delayed calls, and the client sessions of         *)
(* QueueManagerProtocol.                                                   *)
(*                                                                         *)
(* Call objects are modelled by their id: the fields of the Call object    *)
(* with id c are answered[c] and assignedOperator[c].  This is exact in    *)
(* every state in which every call referenced by the queue or by an        *)
(* operator is registered in activeCalls (AliasFree below), because then   *)
(* no two live Call objects share an id.                                   *)
(***************************************************************************)
EXTENDS Integers, Sequences, FiniteSets, TLC

VARIABLES opState, currentCall, activeCalls, answered, assignedOperator,
          callQueue, callTimers, delayed, connected, currentClient,
          response, timerGen

vars == <<opState, currentCall, activeCalls, answered, assignedOperator,
          callQueue, callTimers, delayed, connected, currentClient,
          response, timerGen>>

----------------------------------------------------------------------------
(* Bounds and domains *)

\* number of distinct numeric call ids a client uses
NumCalls == 4

IdNames == <<"1", "2", "3", "4", "5", "6">>

\* the operator pool, in construction order (iteration order of the dict)
OperatorOrder == <<"A", "B">>

Operators == {OperatorOrder[i] : i \in 1..Len(OperatorOrder)}

\* ids a client sends with "call"
CallIds == {IdNames[i] : i \in 1..NumCalls}

\* ids a client sends with answer / reject / hangup; "Z" never names anything
SubjectIds == CallIds \cup Operators \cup {"Z"}

\* client connections; the routing claims are checked with one client that
\* stays connected
Sessions == {"s1", "s2"}

MainSessions == {"s1"}

\* Python's None
None == "None"

\* a DelayedCall the reactor has run; cancel() on it raises AlreadyCalled.
\* The manager does nothing else with a stored delayed call, so the called
\* ones need not be told apart.
Called == "called"

Commands == {"call", "answer", "reject", "hangup"}

----------------------------------------------------------------------------
(* Responses: a single string or a list of strings, or nothing *)

NoResponse == [shape |-> "none", lines |-> <<>>]

Str(m) == [shape |-> "string", lines |-> <<m>>]

Lines(ms) == [shape |-> "list", lines |-> ms]

ErrorProcessing == Str(<<"Error processing command">>)

InvalidId(id) == Str(<<"Invalid id", id>>)

AlreadyExists(id) == Str(<<"already exists", id>>)

RingingMsg(c, o) == <<"ringing for operator", c, o>>

----------------------------------------------------------------------------
(* The manager's state as one value, so that the methods are functions.    *)
(* Two fields describe the event being processed, not the manager: armed   *)
(* is the set of operators reactor.callLater was called for, doubled tells *)
(* that callLater was called for a (call, operator) that had a delayed     *)
(* call pending.                                                           *)

Cur ==
  [opState |-> opState, currentCall |-> currentCall,
   activeCalls |-> activeCalls, answered |-> answered,
   assignedOperator |-> assignedOperator, callQueue |-> callQueue,
   callTimers |-> callTimers, delayed |-> delayed,
   armed |-> {}, doubled |-> FALSE]

\* Operator(id): state "available", no current call
NewOperatorState == "available"

\* Call(id): not answered, no assigned operator
NewCall(s, id) ==
  [s EXCEPT !.answered[id] = FALSE, !.assignedOperator[id] = None]

QueueIds(q) == {q[i] : i \in 1..Len(q)}

\* a Call object no collection and no operator refers to is gone
Referenced(s, c) ==
  \/ c \in s.activeCalls
  \/ c \in QueueIds(s.callQueue)
  \/ \E o \in Operators : s.currentCall[o] = c

Collect(s) ==
  [s EXCEPT
     !.answered = [c \in CallIds |-> IF Referenced(s, c) THEN @[c] ELSE FALSE],
     !.assignedOperator =
        [c \in CallIds |-> IF Referenced(s, c) THEN @[c] ELSE None]]

----------------------------------------------------------------------------
(* QueueManager methods *)

AvailableIndexes(s) ==
  {i \in 1..Len(OperatorOrder) : s.opState[OperatorOrder[i]] = "available"}

\* mutant: the loop keeps the last available operator instead of the first
FirstAvailable_Last(s) ==
  IF AvailableIndexes(s) = {} THEN None
  ELSE OperatorOrder[CHOOSE i \in AvailableIndexes(s) :
                        \A j \in AvailableIndexes(s) : i >= j]

\* the operator the loop of assignCallToOperator stops at, or None
FirstAvailable(s) ==
  IF AvailableIndexes(s) = {} THEN None
  ELSE OperatorOrder[CHOOSE i \in AvailableIndexes(s) :
                        \A j \in AvailableIndexes(s) : i <= j]

\* mutant: the call is not pointed back at the operator
assignCallToOperator_NoBackLink(s, c) ==
  LET o == FirstAvailable(s) IN
  IF o = None THEN [st |-> s, op |-> None]
  ELSE [st |-> [s EXCEPT !.opState[o] = "ringing",
                         !.currentCall[o] = c,
                         !.callTimers[c] = o,
                         !.delayed = @ \cup {<<c, o>>}],
        op |-> o]

\* op is None when the method returns None
assignCallToOperator(s, c) ==
  LET o == FirstAvailable(s) IN
  IF o = None THEN [st |-> s, op |-> None]
  ELSE [st |-> [s EXCEPT !.opState[o] = "ringing",
                         !.currentCall[o] = c,
                         !.assignedOperator[c] = o,
                         !.callTimers[c] = o,
                         !.delayed = @ \cup {<<c, o>>},
                         !.armed = @ \cup {o},
                         !.doubled = @ \/ <<c, o>> \in s.delayed],
        op |-> o]

\* mutant: the delayed call is cancelled but its entry stays in callTimers
disableTimeOut_KeepEntry(s, o) ==
  IF o = None THEN [st |-> s, raised |-> TRUE]
  ELSE LET c == s.currentCall[o] IN
       IF c # None /\ s.callTimers[c] # None
       THEN IF <<c, s.callTimers[c]>> \in s.delayed
            THEN [st |-> [s EXCEPT !.delayed = @ \ {<<c, s.callTimers[c]>>}],
                  raised |-> FALSE]
            ELSE [st |-> s, raised |-> TRUE]
       ELSE [st |-> s, raised |-> FALSE]

\* mutant: the entry is deleted but the delayed call is not cancelled
disableTimeOut_NoCancel(s, o) ==
  IF o = None THEN [st |-> s, raised |-> TRUE]
  ELSE LET c == s.currentCall[o] IN
       IF c # None /\ s.callTimers[c] # None
       THEN [st |-> [s EXCEPT !.callTimers[c] = None], raised |-> FALSE]
       ELSE [st |-> s, raised |-> FALSE]

\* raised is TRUE when the method raises: operator is None, or the stored
\* delayed call was already called
disableTimeOut(s, o) ==
  IF o = None THEN [st |-> s, raised |-> TRUE]
  ELSE LET c == s.currentCall[o] IN
       IF c # None /\ s.callTimers[c] # None
       THEN IF <<c, s.callTimers[c]>> \in s.delayed
            THEN [st |-> [s EXCEPT !.delayed = @ \ {<<c, s.callTimers[c]>>},
                                   !.callTimers[c] = None],
                  raised |-> FALSE]
            ELSE [st |-> s, raised |-> TRUE]
       ELSE [st |-> s, raised |-> FALSE]

\* a str id never equals a Call object of the queue
InCallQueue(s, id) == FALSE

\* mutant: the test is inverted (True for an unknown id)
checkForValidId_Inverted(s, id) ==
  id \notin s.activeCalls /\ id \notin Operators /\ ~ InCallQueue(s, id)

checkForValidId(s, id) ==
  ~ (id \notin s.activeCalls /\ id \notin Operators /\ ~ InCallQueue(s, id))

----------------------------------------------------------------------------
(* handleCommand, one operator per branch; each yields the state the       *)
(* manager is left in and the value returned (the except clause turns any  *)
(* exception into ErrorProcessing and keeps what was mutated before it).   *)

\* mutant: the new call is appended to the queue even when it was assigned
cmdCall_AlwaysQueue(s, id) ==
  IF id \in s.activeCalls THEN [st |-> s, resp |-> AlreadyExists(id)]
  ELSE LET s1 == [NewCall(s, id) EXCEPT !.activeCalls = @ \cup {id}]
           a  == assignCallToOperator(s1, id)
       IN [st |-> [a.st EXCEPT !.callQueue = Append(@, id)],
           resp |-> Lines(<< <<"received", id>>,
                             IF a.op = None THEN <<"waiting in queue", id>>
                             ELSE RingingMsg(id, a.op) >>)]

\* mutant: no test for an id that is already active
cmdCall_NoDupCheck(s, id) ==
  LET s1 == [NewCall(s, id) EXCEPT !.activeCalls = @ \cup {id}]
      a  == assignCallToOperator(s1, id)
  IN IF a.op = None
     THEN [st |-> [a.st EXCEPT !.callQueue = Append(@, id)],
           resp |-> Lines(<< <<"received", id>>,
                             <<"waiting in queue", id>> >>)]
     ELSE [st |-> a.st,
           resp |-> Lines(<< <<"received", id>>, RingingMsg(id, a.op) >>)]

cmdCall(s, id) ==
  IF id \in s.activeCalls THEN [st |-> s, resp |-> AlreadyExists(id)]
  ELSE LET s1 == [NewCall(s, id) EXCEPT !.activeCalls = @ \cup {id}]
           a  == assignCallToOperator(s1, id)
       IN IF a.op = None
          THEN [st |-> [a.st EXCEPT !.callQueue = Append(@, id)],
                resp |-> Lines(<< <<"received", id>>,
                                  <<"waiting in queue", id>> >>)]
          ELSE [st |-> a.st,
                resp |-> Lines(<< <<"received", id>>, RingingMsg(id, a.op) >>)]

\* mutant: the operator's timer is not disabled before the call is answered
cmdAnswer_NoDisable(s, id) ==
  IF ~ checkForValidId(s, id) THEN [st |-> s, resp |-> InvalidId(id)]
  ELSE IF id \notin Operators THEN [st |-> s, resp |-> ErrorProcessing]
  ELSE IF s.opState[id] = "ringing"
       THEN LET c == s.currentCall[id] IN
            [st |-> [s EXCEPT !.answered[c] = TRUE, !.opState[id] = "busy"],
             resp |-> Str(<<"answered by operator", c, id>>)]
       ELSE [st |-> s, resp |-> NoResponse]

cmdAnswer(s, id) ==
  IF ~ checkForValidId(s, id) THEN [st |-> s, resp |-> InvalidId(id)]
  ELSE LET o == IF id \in Operators THEN id ELSE None
           d == disableTimeOut(s, o)
       IN IF d.raised THEN [st |-> d.st, resp |-> ErrorProcessing]
          ELSE IF d.st.opState[o] = "ringing"
          THEN LET c == d.st.currentCall[o] IN
               [st |-> [d.st EXCEPT !.answered[c] = TRUE,
                                    !.opState[o] = "busy"],
                resp |-> Str(<<"answered by operator", c, o>>)]
          ELSE [st |-> d.st, resp |-> NoResponse]

\* mutant: the operator is reset outside the "if ringing" block, before the
\* unbound response raises
cmdReject_ResetOutsideIf(s, id) ==
  IF ~ checkForValidId(s, id) THEN [st |-> s, resp |-> InvalidId(id)]
  ELSE LET o == IF id \in Operators THEN id ELSE None
           d == disableTimeOut(s, o)
       IN IF d.raised THEN [st |-> d.st, resp |-> ErrorProcessing]
          ELSE IF d.st.opState[o] = "ringing"
          THEN LET c  == d.st.currentCall[o]
                   s1 == [d.st EXCEPT !.assignedOperator[c] = None,
                                      !.opState[o] = "available",
                                      !.currentCall[o] = None]
                   a  == assignCallToOperator(s1, c)
               IN IF a.op = None
                  THEN [st |-> [a.st EXCEPT !.callQueue = Append(@, c)],
                        resp |-> Lines(<< <<"rejected by operator", c, o>> >>)]
                  ELSE [st |-> a.st,
                        resp |-> Lines(<< <<"rejected by operator", c, o>>,
                                          RingingMsg(c, a.op) >>)]
          ELSE [st |-> [d.st EXCEPT !.opState[o] = "available",
                                    !.currentCall[o] = None],
                resp |-> ErrorProcessing]

cmdReject(s, id) ==
  IF ~ checkForValidId(s, id) THEN [st |-> s, resp |-> InvalidId(id)]
  ELSE LET o == IF id \in Operators THEN id ELSE None
           d == disableTimeOut(s, o)
       IN IF d.raised THEN [st |-> d.st, resp |-> ErrorProcessing]
          ELSE IF d.st.opState[o] = "ringing"
          THEN LET c  == d.st.currentCall[o]
                   s1 == [d.st EXCEPT !.assignedOperator[c] = None,
                                      !.opState[o] = "available",
                                      !.currentCall[o] = None]
                   a  == assignCallToOperator(s1, c)
               IN IF a.op = None
                  THEN [st |-> [a.st EXCEPT !.callQueue = Append(@, c)],
                        resp |-> Lines(<< <<"rejected by operator", c, o>> >>)]
                  ELSE [st |-> a.st,
                        resp |-> Lines(<< <<"rejected by operator", c, o>>,
                                          RingingMsg(c, a.op) >>)]
          \* "return response" with response unbound: UnboundLocalError
          ELSE [st |-> d.st, resp |-> ErrorProcessing]

\* mutant: callQueue.pop() instead of callQueue.pop(0)
cmdHangup_PopLast(s, id) ==
  IF ~ checkForValidId(s, id) THEN [st |-> s, resp |-> InvalidId(id)]
  ELSE IF id \notin s.activeCalls THEN [st |-> s, resp |-> ErrorProcessing]
  ELSE LET o == s.assignedOperator[id]
           d == disableTimeOut(s, o)
       IN IF d.raised THEN [st |-> d.st, resp |-> ErrorProcessing]
          ELSE
          LET s1 == [d.st EXCEPT !.opState[o] = "available",
                                 !.currentCall[o] = None]
              first == IF s1.answered[id]
                       THEN <<"finished and operator available", id, o>>
                       ELSE <<"missed", id>>
          IN IF s1.callQueue # <<>>
             THEN LET n == Len(s1.callQueue)
                      nextCall == s1.callQueue[n]
                      a == assignCallToOperator(
                             [s1 EXCEPT !.callQueue = SubSeq(@, 1, n - 1)],
                             nextCall)
                  IN [st |-> Collect([a.st EXCEPT !.activeCalls = @ \ {id}]),
                      resp |-> Lines(IF a.op = None THEN <<first>>
                                     ELSE <<first, RingingMsg(nextCall, a.op)>>)]
             ELSE [st |-> Collect([s1 EXCEPT !.activeCalls = @ \ {id}]),
                   resp |-> Lines(<<first>>)]

cmdHangup(s, id) ==
  IF ~ checkForValidId(s, id) THEN [st |-> s, resp |-> InvalidId(id)]
  \* activeCalls.get(id) is None: call.assignedOperator raises
  ELSE IF id \notin s.activeCalls THEN [st |-> s, resp |-> ErrorProcessing]
  ELSE LET o == s.assignedOperator[id]
           d == disableTimeOut(s, o)
       IN IF d.raised THEN [st |-> d.st, resp |-> ErrorProcessing]
          ELSE
          LET s1 == [d.st EXCEPT !.opState[o] = "available",
                                 !.currentCall[o] = None]
              first == IF s1.answered[id]
                       THEN <<"finished and operator available", id, o>>
                       ELSE <<"missed", id>>
          IN IF s1.callQueue # <<>>
             THEN LET nextCall == Head(s1.callQueue)
                      a == assignCallToOperator(
                             [s1 EXCEPT !.callQueue = Tail(@)], nextCall)
                  IN [st |-> Collect([a.st EXCEPT !.activeCalls = @ \ {id}]),
                      resp |-> Lines(IF a.op = None THEN <<first>>
                                     ELSE <<first, RingingMsg(nextCall, a.op)>>)]
             ELSE [st |-> Collect([s1 EXCEPT !.activeCalls = @ \ {id}]),
                   resp |-> Lines(<<first>>)]

handleCommand(s, cmd, id) ==
  CASE cmd = "call"   -> cmdCall(s, id)
    [] cmd = "answer" -> cmdAnswer(s, id)
    [] cmd = "reject" -> cmdReject(s, id)
    [] cmd = "hangup" -> cmdHangup(s, id)

\* what the reactor logs when a callback raises
Fault == [shape |-> "fault", lines |-> <<>>]

\* mutant: the timed-out call is left in activeCalls
handleTimeOut_KeepsCall(s, callId, operatorId, client) ==
  LET s0 == [s EXCEPT !.opState[operatorId] = "available",
                      !.currentCall[operatorId] = None]
  IN IF callId \notin s.activeCalls
     THEN [st |-> Collect(s0), pushed |-> Fault]
     ELSE
     LET s1 == [s0 EXCEPT !.assignedOperator[callId] = None]
         ignored == <<"ignored by operator", callId, operatorId>>
     IN IF s1.callQueue # <<>>
        THEN LET nextCall == Head(s1.callQueue)
                 a == assignCallToOperator(
                        [s1 EXCEPT !.callQueue = Tail(@)], nextCall)
             IN IF a.op = None
                THEN [st |-> Collect(a.st), pushed |-> Fault]
                ELSE [st |-> Collect(a.st),
                      pushed |-> IF client = None THEN Fault
                                 ELSE Lines(<<ignored,
                                              RingingMsg(nextCall, a.op)>>)]
        ELSE [st |-> Collect(s1),
              pushed |-> IF client = None THEN Fault ELSE Lines(<<ignored>>)]

\* mutant: the callback frees the operator and stops, the queue is not
\* looked at
handleTimeOut_NoPromote(s, callId, operatorId, client) ==
  LET s0 == [s EXCEPT !.opState[operatorId] = "available",
                      !.currentCall[operatorId] = None]
  IN IF callId \notin s.activeCalls
     THEN [st |-> Collect(s0), pushed |-> Fault]
     ELSE [st |-> Collect([s0 EXCEPT !.assignedOperator[callId] = None,
                                     !.activeCalls = @ \ {callId}]),
           pushed |-> IF client = None THEN Fault
                      ELSE Lines(<< <<"ignored by operator", callId,
                                      operatorId>> >>)]

\* the delayed call's callback; client is currentClient.  pushed is the
\* line sent to the client, Fault when the callback raises (the state
\* mutated before the exception stays)
handleTimeOut(s, callId, operatorId, client) ==
  LET s0 == [s EXCEPT !.opState[operatorId] = "available",
                      !.currentCall[operatorId] = None]
  IN IF callId \notin s.activeCalls
     \* call is None: call.assignedOperator = None raises
     THEN [st |-> Collect(s0), pushed |-> Fault]
     ELSE
     LET s1 == [s0 EXCEPT !.assignedOperator[callId] = None,
                          !.activeCalls = @ \ {callId}]
         ignored == <<"ignored by operator", callId, operatorId>>
     IN IF s1.callQueue # <<>>
        THEN LET nextCall == Head(s1.callQueue)
                 a == assignCallToOperator(
                        [s1 EXCEPT !.callQueue = Tail(@)], nextCall)
             IN IF a.op = None
                \* nextCall.assignedOperator.id raises on None
                THEN [st |-> Collect(a.st), pushed |-> Fault]
                ELSE [st |-> Collect(a.st),
                      pushed |-> IF client = None THEN Fault
                                 ELSE Lines(<<ignored,
                                              RingingMsg(nextCall, a.op)>>)]
        ELSE [st |-> Collect(s1),
              pushed |-> IF client = None THEN Fault ELSE Lines(<<ignored>>)]

----------------------------------------------------------------------------
(* The state machine *)

Commit(s) ==
  /\ opState' = s.opState
  /\ currentCall' = s.currentCall
  /\ activeCalls' = s.activeCalls
  /\ answered' = s.answered
  /\ assignedOperator' = s.assignedOperator
  /\ callQueue' = s.callQueue
  /\ callTimers' = s.callTimers
  /\ delayed' = s.delayed

Init ==
  /\ opState = [o \in Operators |-> NewOperatorState]
  /\ currentCall = [o \in Operators |-> None]
  /\ activeCalls = {}
  /\ answered = [c \in CallIds |-> FALSE]
  /\ assignedOperator = [c \in CallIds |-> None]
  /\ callQueue = <<>>
  /\ callTimers = [c \in CallIds |-> None]
  /\ delayed = {}
  /\ connected = {}
  /\ currentClient = None
  /\ response = NoResponse
  /\ timerGen = [o \in Operators |-> 0]

connectionMade(p) ==
  /\ p \notin connected
  /\ connected' = connected \cup {p}
  /\ currentClient' = p
  /\ UNCHANGED <<response, timerGen>>
  /\ Commit(Cur)

connectionLost(p) ==
  /\ p \in connected
  /\ connected' = connected \ {p}
  /\ currentClient' = None
  /\ UNCHANGED <<response, timerGen>>
  /\ Commit(Cur)

\* a line from session p: json.loads, handleCommand, reply to p if truthy.
\* The variable response observes the reply that came with the last change
\* of the manager's state; the reply of an event that changes nothing is
\* handleCommand(Cur, cmd, id).resp in that state.
receive(p, cmd, id) ==
  /\ p \in connected
  /\ LET r == handleCommand(Cur, cmd, id) IN
       /\ Commit(r.st)
       /\ response' = IF r.st = Cur THEN response ELSE r.resp
  /\ UNCHANGED <<connected, currentClient>>

lineReceived(p, cmd, id) ==
  receive(p, cmd, id) /\ UNCHANGED timerGen

\* the state and the pushed line after the reactor ran the delayed call
\* (callId, operatorId): it takes the delayed call off its pending calls
\* and marks it called first, so an entry of callTimers that holds it holds
\* a called DelayedCall from then on
fireTimeOut(callId, operatorId) ==
  handleTimeOut([Cur EXCEPT !.delayed = @ \ {<<callId, operatorId>>},
                            !.callTimers[callId] =
                               IF @ = operatorId THEN Called ELSE @],
                callId, operatorId, currentClient)

\* the reactor runs a pending delayed call
expire(callId, operatorId) ==
  /\ <<callId, operatorId>> \in delayed
  /\ LET r == fireTimeOut(callId, operatorId) IN
       /\ Commit(r.st)
       /\ response' = r.pushed
  /\ UNCHANGED <<connected, currentClient>>

TimeOut(callId, operatorId) ==
  expire(callId, operatorId) /\ UNCHANGED timerGen

Next ==
  \/ \E p \in MainSessions : connectionMade(p)
  \/ \E p \in MainSessions, id \in CallIds : lineReceived(p, "call", id)
  \/ \E p \in MainSessions, cmd \in Commands \ {"call"}, id \in SubjectIds :
       lineReceived(p, cmd, id)
  \/ \E c \in CallIds, o \in Operators : TimeOut(c, o)

Spec == Init /\ [][Next]_vars

----------------------------------------------------------------------------
(* Soundness of modelling Call objects by id *)

AliasFree ==
  /\ QueueIds(callQueue) \subseteq activeCalls
  /\ \A o \in Operators : currentCall[o] # None => currentCall[o] \in activeCalls

TypeOK ==
  /\ opState \in [Operators -> {"available", "ringing", "busy"}]
  /\ currentCall \in [Operators -> CallIds \cup {None}]
  /\ activeCalls \subseteq CallIds
  /\ answered \in [CallIds -> BOOLEAN]
  /\ assignedOperator \in [CallIds -> Operators \cup {None}]
  /\ callTimers \in [CallIds -> Operators \cup {None, Called}]
  /\ delayed \subseteq CallIds \X Operators
  /\ connected \subseteq Sessions
  /\ currentClient \in Sessions \cup {None}
  /\ timerGen \in [Operators -> {0, 1}]

----------------------------------------------------------------------------
(* Vocabulary of the claims *)

\* in state s operator o is ringing on call c with a pending deadline
\* registered for c
RingsAt(s, c, o) ==
  /\ s.opState[o] = "ringing"
  /\ s.currentCall[o] = c
  /\ s.assignedOperator[c] = o
  /\ s.callTimers[c] = o
  /\ <<c, o>> \in s.delayed

\* in state s operator o is free
Free(s, o) == s.opState[o] = "available" /\ s.currentCall[o] = None

HasTimer(s, c) == s.callTimers[c] # None

----------------------------------------------------------------------------
(* C1 - C4: invariants of the data model *)

\* C1: mutual consistency.  For every operator o and every active call c,
\* c.assignedOperator = o iff o.currentCall = c; every call an operator is
\* linked to is active and points back to that operator, and no call is the
\* current call of two operators.
C1_MutualConsistency ==
  /\ \A o \in Operators, c \in activeCalls :
       (assignedOperator[c] = o) <=> (currentCall[o] = c)
  /\ \A o \in Operators :
       currentCall[o] # None =>
         /\ currentCall[o] \in activeCalls
         /\ assignedOperator[currentCall[o]] = o
  /\ \A o1, o2 \in Operators :
       (currentCall[o1] # None /\ currentCall[o1] = currentCall[o2]) => o1 = o2

\* one operator talks, the other rings, and a call waits
C1_Witness ==
  \E o1, o2 \in Operators :
    /\ opState[o1] = "busy" /\ answered[currentCall[o1]]
    /\ opState[o2] = "ringing" /\ assignedOperator[currentCall[o2]] = o2
    /\ callQueue # <<>>

\* C2: an operator is ringing iff it has a current call and callTimers has
\* an entry for that call's id; the current call of a busy operator has no
\* entry.
C2_RingingIffTimer ==
  \A o \in Operators :
    /\ (opState[o] = "ringing") <=>
         (currentCall[o] # None /\ callTimers[currentCall[o]] # None)
    /\ (opState[o] = "busy" /\ currentCall[o] # None) =>
         callTimers[currentCall[o]] = None

\* an operator has just answered (its timer entry is gone) while the other
\* operator rings with its entry in place
C2_Witness ==
  \E o1, o2 \in Operators :
    /\ opState[o1] = "busy" /\ callTimers[currentCall[o1]] = None
    /\ opState[o2] = "ringing" /\ callTimers[currentCall[o2]] = o2
    /\ response = Str(<<"answered by operator", currentCall[o1], o1>>)

\* C3: no call is in the wait queue and assigned to an operator at once.
C3_QueuedXorAssigned ==
  \A i \in 1..Len(callQueue) :
    /\ assignedOperator[callQueue[i]] = None
    /\ \A o \in Operators : currentCall[o] # callQueue[i]

\* a hangup has just promoted the head of a queue of two
C3_Witness ==
  /\ Len(callQueue) >= 1
  /\ response.shape = "list" /\ Len(response.lines) = 2
  /\ response.lines[1][1] = "finished and operator available"
  /\ response.lines[2][1] = "ringing for operator"

\* C4: every key of callTimers is the id of a call that is ringing at some
\* operator.
C4_TimerKeysRinging ==
  \A c \in CallIds :
    callTimers[c] # None =>
      \E o \in Operators : opState[o] = "ringing" /\ currentCall[o] = c

----------------------------------------------------------------------------
(* C5 - C10: what one event does.  The effect of a command in a reachable  *)
(* state is handleCommand(Cur, cmd, id), which is what lineReceived        *)
(* commits; the effect of a deadline is fireTimeOut, which is what TimeOut *)
(* commits.  A command can arrive once a client is connected.              *)

CanReceive == connected # {}

OtherAvailable(o) ==
  \E o2 \in Operators \ {o} : opState[o2] = "available"

\* C5: reject(o) while o rings on c and another operator is available
\* leaves c ringing at such another operator with an armed timer, o
\* available without a current call, and the wait queue unchanged.
C5_RejectHandsToOther ==
  \A o \in Operators :
    (CanReceive /\ opState[o] = "ringing" /\ OtherAvailable(o)) =>
      LET c == currentCall[o]
          r == handleCommand(Cur, "reject", o).st
      IN /\ Free(r, o)
         /\ \E o2 \in Operators \ {o} :
              opState[o2] = "available" /\ RingsAt(r, c, o2)
         /\ r.callQueue = callQueue

\* C6: reject(o) while o rings on c and no other operator is available
\* leaves o available without a current call and without a timer, and c
\* the last element of the wait queue, behind the calls already waiting.
C6_RejectQueuesAtBack ==
  \A o \in Operators :
    (CanReceive /\ opState[o] = "ringing" /\ ~ OtherAvailable(o)) =>
      LET c == currentCall[o]
          r == handleCommand(Cur, "reject", o).st
      IN /\ Free(r, o)
         /\ ~ HasTimer(r, c)
         /\ \A o2 \in Operators : <<c, o2>> \notin r.delayed
         /\ r.callQueue = Append(callQueue, c)

\* C7: hangup(c) on an active call c that is not answered, waiting or
\* ringing, answers "Call c missed", removes c from the registry and from
\* the wait queue, leaves no timer for c and frees its operator if any.
C7_HangupUnansweredMissed ==
  \A c \in activeCalls :
    (CanReceive /\ ~ answered[c]) =>
      LET res == handleCommand(Cur, "hangup", c)
          r   == res.st
      IN /\ res.resp.shape = "list"
         /\ res.resp.lines[1] = <<"missed", c>>
         /\ c \notin r.activeCalls
         /\ c \notin QueueIds(r.callQueue)
         /\ ~ HasTimer(r, c)
         /\ \A o \in Operators : <<c, o>> \notin r.delayed
         /\ \A o \in Operators : r.currentCall[o] # c

\* C8: hangup(c) on an answered call c held by operator o answers
\* "finished" naming o, removes c from the registry and takes it from o;
\* with a non-empty wait queue the head h leaves the queue and ends ringing
\* at an operator with a timer armed by this event, the rest of the queue
\* keeping its order; with an empty queue o ends available.
C8_HangupAnswered ==
  \A c \in activeCalls :
    (CanReceive /\ answered[c] /\ assignedOperator[c] # None) =>
      LET o   == assignedOperator[c]
          res == handleCommand(Cur, "hangup", c)
          r   == res.st
      IN /\ res.resp.shape = "list"
         /\ res.resp.lines[1] = <<"finished and operator available", c, o>>
         /\ c \notin r.activeCalls
         /\ \A o2 \in Operators : r.currentCall[o2] # c
         /\ IF callQueue # <<>>
            THEN LET h == Head(callQueue) IN
                 /\ r.callQueue = Tail(callQueue)
                 /\ h \in r.activeCalls
                 /\ \A o2 \in Operators : <<h, o2>> \notin delayed
                 /\ \E o2 \in Operators : RingsAt(r, h, o2)
            ELSE Free(r, o) /\ r.callQueue = <<>>

\* an answered call was hung up while two calls waited: the first of them
\* now rings and the second is still queued
C8_Witness ==
  \E c \in CallIds, o \in Operators :
    /\ c \notin activeCalls
    /\ Len(callQueue) >= 1
    /\ response.shape = "list" /\ Len(response.lines) = 2
    /\ response.lines[1] = <<"finished and operator available", c, o>>
    /\ response.lines[2][1] = "ringing for operator"
    /\ opState[o] = "ringing"

\* C9: when the deadline of call c ringing at operator o fires, c leaves
\* the registry and does not enter the wait queue, o loses c, the fired
\* deadline is no longer pending (it takes effect once), and the head of a
\* non-empty wait queue is popped and ends ringing at o itself with a
\* timer armed; with an empty queue o ends available.
C9_RingTimeout ==
  \A c \in CallIds, o \in Operators :
    (<<c, o>> \in delayed /\ opState[o] = "ringing" /\ currentCall[o] = c) =>
      LET r == fireTimeOut(c, o).st
      IN /\ c \notin r.activeCalls
         /\ c \notin QueueIds(r.callQueue)
         /\ \A o2 \in Operators : r.currentCall[o2] # c
         /\ <<c, o>> \notin r.delayed
         /\ IF callQueue # <<>>
            THEN /\ r.callQueue = Tail(callQueue)
                 /\ RingsAt(r, Head(callQueue), o)
            ELSE Free(r, o) /\ r.callQueue = <<>>

\* a deadline fired while two calls waited: the timed-out call is gone,
\* the first waiting call rings at the freed operator, the second waits
C9_Witness ==
  \E c \in CallIds, o \in Operators :
    /\ c \notin activeCalls
    /\ Len(callQueue) >= 1
    /\ opState[o] = "ringing" /\ currentCall[o] # None
    /\ response = Lines(<< <<"ignored by operator", c, o>>,
                           RingingMsg(currentCall[o], o) >>)

\* C10: reject(o) on an operator that is not ringing changes nothing and
\* produces no response.
C10_RejectNotRingingSilent ==
  \A o \in Operators :
    (CanReceive /\ opState[o] # "ringing") =>
      LET res == handleCommand(Cur, "reject", o)
      IN res.st = Cur /\ res.resp = NoResponse

----------------------------------------------------------------------------
(* C11 - C20 *)

\* C11: answer(o) on an operator ringing on call c marks c answered, makes
\* o busy, keeps the link between o and c, and cancels and removes c's
\* timer; answer(o) on an operator that is not ringing changes nothing and
\* produces no response.
C11_Answer ==
  \A o \in Operators :
    CanReceive =>
      LET res == handleCommand(Cur, "answer", o)
          r   == res.st
          c   == currentCall[o]
      IN IF opState[o] = "ringing"
         THEN /\ r.answered[c]
              /\ r.opState[o] = "busy"
              /\ r.currentCall[o] = c
              /\ r.assignedOperator[c] = o
              /\ <<c, o>> \in delayed
              /\ <<c, o>> \notin r.delayed
              /\ ~ HasTimer(r, c)
         ELSE r = Cur /\ res.resp = NoResponse

\* an operator has answered and is busy with the call, no deadline pending
\* for it, so that a second answer finds it not ringing
C11_Witness ==
  \E o \in Operators :
    /\ opState[o] = "busy"
    /\ response = Str(<<"answered by operator", currentCall[o], o>>)
    /\ answered[currentCall[o]]
    /\ \A o2 \in Operators : <<currentCall[o], o2>> \notin delayed

\* the operator the claim expects an assignment attempt to choose when it is
\* made with operator freed just released (None: nobody released): A before
\* B, the first that is available
PoolFirst(freed) ==
  IF opState["A"] = "available" \/ freed = "A" THEN "A"
  ELSE IF opState["B"] = "available" \/ freed = "B" THEN "B"
  ELSE None

C13_DuplicateCall ==
  /\ \A c \in activeCalls :
       CanReceive =>
         LET res == handleCommand(Cur, "call", c) IN
         res.st = Cur /\ res.resp = AlreadyExists(c)
  /\ \A c \in CallIds \ activeCalls :
       CanReceive =>
         LET res == handleCommand(Cur, "call", c) IN
         /\ res.resp.shape = "list"
         /\ res.resp.lines[1] = <<"received", c>>
         /\ c \in res.st.activeCalls
  /\ \A cmd \in Commands, id \in SubjectIds :
       (CanReceive /\ (cmd = "call" => id \in CallIds)) =>
         LET after == handleCommand(Cur, cmd, id).st.activeCalls IN
         \A c \in activeCalls : (cmd = "hangup" /\ id = c) \/ c \in after
  /\ \A c2 \in CallIds, o \in Operators :
       <<c2, o>> \in delayed =>
         activeCalls \ {c2} \subseteq fireTimeOut(c2, o).st.activeCalls

\* a waiting, a ringing and an answered call are active, and an id that
\* timed out earlier is free again
C13_Witness ==
  /\ callQueue # <<>>
  /\ \E o1, o2 \in Operators : opState[o1] = "ringing" /\ opState[o2] = "busy"
  /\ \E c \in CallIds \ activeCalls : callTimers[c] # None

\* C14: answer, reject or hangup with an id that names no active call, no
\* operator and no queued call returns the invalid-id result and changes
\* nothing.
C14_UnknownId ==
  \A cmd \in Commands \ {"call"}, id \in SubjectIds :
    (CanReceive /\ id \notin activeCalls /\ id \notin Operators
       /\ id \notin QueueIds(callQueue)) =>
      LET res == handleCommand(Cur, cmd, id) IN
      res.st = Cur /\ res.resp = InvalidId(id)

\* calls are ringing and waiting while the id of a call that was hung up
\* names nothing any more
C14_Witness ==
  /\ CanReceive
  /\ callQueue # <<>>
  /\ \E c \in CallIds \ activeCalls :
       \E o \in Operators :
         response.lines[1] = <<"finished and operator available", c, o>>

\* the wait queue q2 comes from q by nothing, by an append of a call that
\* was not waiting, or by taking the head
FifoStep(q, q2) ==
  \/ q2 = q
  \/ \E x \in CallIds \ QueueIds(q) : q2 = Append(q, x)
  \/ q # <<>> /\ q2 = Tail(q)

\* the head of q was taken and rings at an operator in state r, or nothing
\* was taken
HeadPromoted(q, r) ==
  Len(r.callQueue) < Len(q) => \E o \in Operators : RingsAt(r, Head(q), o)

\* C15: the wait queue is FIFO.  Every event leaves the queue as it was,
\* appends a call behind those already waiting, or removes exactly its
\* head, which then rings at an operator; so a call never leaves the queue
\* while a call that entered before it still waits.
C15_Fifo ==
  /\ \A cmd \in Commands, id \in SubjectIds :
       (CanReceive /\ (cmd = "call" => id \in CallIds)) =>
         LET r == handleCommand(Cur, cmd, id).st IN
         FifoStep(callQueue, r.callQueue) /\ HeadPromoted(callQueue, r)
  /\ \A c \in CallIds, o \in Operators :
       <<c, o>> \in delayed =>
         LET r == fireTimeOut(c, o).st IN
         FifoStep(callQueue, r.callQueue) /\ HeadPromoted(callQueue, r)

\* a ringing call was hung up while two calls waited: the one that entered
\* first was promoted, the other still waits
C15_Witness ==
  /\ Len(callQueue) >= 1
  /\ response.shape = "list" /\ Len(response.lines) = 2
  /\ response.lines[1][1] = "missed"
  /\ \E o \in Operators :
       /\ opState[o] = "ringing"
       /\ response.lines[2] = RingingMsg(currentCall[o], o)

\* the (call, operator) pairs where the operator rings with that call as
\* its current call
RingingPairs ==
  {p \in CallIds \X Operators :
     opState[p[2]] = "ringing" /\ currentCall[p[2]] = p[1]}

\* C16: the pending delayed calls are exactly the ringing pairings, one per
\* pairing: no event calls callLater for a pairing whose delayed call is
\* still pending.  So a cancelled timer never fires, and no deadline is
\* pending for a call that is answered, queued, removed, or ringing at
\* another operator.
C16_TimersMatchRinging ==
  /\ delayed = RingingPairs
  /\ \A cmd \in Commands, id \in SubjectIds :
       (CanReceive /\ (cmd = "call" => id \in CallIds)) =>
         ~ handleCommand(Cur, cmd, id).st.doubled
  /\ \A c \in CallIds, o \in Operators :
       <<c, o>> \in delayed => ~ fireTimeOut(c, o).st.doubled

\* an operator rejected its call and rings on it again under a new
\* deadline, while the other operator is busy with an answered call whose
\* deadline was cancelled
C16_Witness ==
  \E o1, o2 \in Operators :
    /\ opState[o1] = "ringing" /\ <<currentCall[o1], o1>> \in delayed
    /\ response.shape = "list"
    /\ response.lines[1] = <<"rejected by operator", currentCall[o1], o1>>
    /\ opState[o2] = "busy"
    /\ \A c \in CallIds : <<c, o2>> \notin delayed

\* the three error results of handleCommand
IsError(resp) ==
  /\ resp.shape = "string"
  /\ resp.lines[1][1] \in
       {"Error processing command", "Invalid id", "already exists"}

\* C17: every command whose result is an error (duplicate id, invalid id,
\* "Error processing command") leaves operators, registry, wait queue,
\* timer registry and pending delayed calls as they were.
C17_ErrorsKeepState ==
  \A cmd \in Commands, id \in SubjectIds :
    (CanReceive /\ (cmd = "call" => id \in CallIds)) =>
      LET res == handleCommand(Cur, cmd, id) IN
      IsError(res.resp) => res.st = Cur

\* two calls wait, one operator is busy and one rings: hangup of a waiting
\* call, reject of the busy operator, a duplicate call and an unknown id
\* all end in an error here
C17_Witness ==
  /\ CanReceive
  /\ Len(callQueue) = 2
  /\ \E o1, o2 \in Operators : opState[o1] = "busy" /\ opState[o2] = "ringing"
  /\ IsError(handleCommand(Cur, "hangup", callQueue[1]).resp)
  /\ IsError(handleCommand(Cur, "call", callQueue[2]).resp)

\* C19: a command whose id is known but of the wrong kind gets the
\* invalid-id result, not "Error processing command", and changes nothing:
\* hangup of an id that names an operator but no active call, answer and
\* reject of an id that names an active call but no operator.
C19_WrongKindIsInvalidId ==
  /\ \A o \in Operators \ activeCalls :
       CanReceive =>
         LET res == handleCommand(Cur, "hangup", o) IN
         res.st = Cur /\ res.resp = InvalidId(o)
  /\ \A c \in activeCalls \ Operators, cmd \in {"answer", "reject"} :
       CanReceive =>
         LET res == handleCommand(Cur, cmd, c) IN
         res.st = Cur /\ res.resp = InvalidId(c)

\* C20: work conservation.  If the wait queue is not empty, no operator is
\* available.
C20_WorkConservation ==
  callQueue # <<>> => \A o \in Operators : opState[o] # "available"

\* a deadline fired while calls waited and both operators are occupied
\* again, one of them with an answered call
C20_Witness ==
  /\ callQueue # <<>>
  /\ response.shape = "list"
  /\ response.lines[1][1] = "ignored by operator"
  /\ \E o \in Operators : opState[o] = "busy"


\* the calls that are somewhere: waiting, or the current call of an operator
Placed ==
  (QueueIds(callQueue) \cup {currentCall[o] : o \in Operators}) \ {None}

\* C21: no orphaned and no ghost calls.  The active registry is exactly the
\* set of calls that wait in the queue or are the current call of an
\* operator, and no call is in the wait queue twice.
C21_NoOrphans ==
  /\ activeCalls = Placed
  /\ \A i, j \in 1..Len(callQueue) : callQueue[i] = callQueue[j] => i = j

\* four calls are active, two at the operators and two waiting, one of the
\* waiting ones under an id whose earlier call a deadline took out of the
\* registry
C21_Witness ==
  /\ Len(callQueue) = 2
  /\ Cardinality(activeCalls) = 4
  /\ \A o \in Operators : currentCall[o] # None
  /\ \E c \in QueueIds(callQueue) : callTimers[c] = Called

\* in state r call c is active, answered and linked both ways to the busy
\* operator o
Talking(r, c, o) ==
  /\ c \in r.activeCalls
  /\ r.answered[c]
  /\ r.assignedOperator[c] = o
  /\ r.currentCall[o] = c
  /\ r.opState[o] = "busy"

\* C22: an answered call is stable until its hangup.  Once answer(o) has
\* marked c answered, every command other than hangup(c) and every deadline
\* leaves c active, answered and linked to the same busy operator o; an
\* active call is answered iff it has an operator and that operator is
\* busy; an operator is available iff it has no current call.
C22_AnsweredStable ==
  /\ \A o \in Operators :
       (CanReceive /\ opState[o] = "ringing") =>
         Talking(handleCommand(Cur, "answer", o).st, currentCall[o], o)
  /\ \A cmd \in Commands, id \in SubjectIds :
       (CanReceive /\ (cmd = "call" => id \in CallIds)) =>
         LET r == handleCommand(Cur, cmd, id).st IN
         \A c \in activeCalls :
           (answered[c] /\ ~ (cmd = "hangup" /\ id = c)) =>
             Talking(Cur, c, assignedOperator[c])
               /\ Talking(r, c, assignedOperator[c])
  /\ \A c2 \in CallIds, o2 \in Operators :
       <<c2, o2>> \in delayed =>
         LET r == fireTimeOut(c2, o2).st IN
         \A c \in activeCalls :
           answered[c] => Talking(r, c, assignedOperator[c])
  /\ \A c \in activeCalls :
       answered[c] <=>
         (assignedOperator[c] # None /\ opState[assignedOperator[c]] = "busy")
  /\ \A o \in Operators :
       (opState[o] = "available") <=> (currentCall[o] = None)

\* an operator talks on an answered call while the deadline of the other
\* operator's call has just fired and nothing waits
C22_Witness ==
  \E o1, o2 \in Operators, c \in CallIds \ activeCalls :
    /\ Talking(Cur, currentCall[o1], o1)
    /\ response = Lines(<< <<"ignored by operator", c, o2>> >>)
    /\ opState[o2] = "available"

----------------------------------------------------------------------------
(* Delivery of deadlines.  A delayed call that is not cancelled is run by  *)
(* the reactor once its 10 seconds have passed.  Each callLater makes a    *)
(* new delayed call: timerGen[o] changes whenever a deadline is armed for  *)
(* operator o, so that (c, o, timerGen[o]) names the one delayed call      *)
(* pending for o, and a deadline that was cancelled and armed again is not *)
(* taken for one that stayed pending.                                      *)

FairIds == {IdNames[1], IdNames[2]}

Flip(ops) == [o \in Operators |-> IF o \in ops THEN 1 - timerGen[o]
                                               ELSE timerGen[o]]

lineReceivedGen(p, cmd, id) ==
  /\ receive(p, cmd, id)
  /\ timerGen' = Flip(handleCommand(Cur, cmd, id).st.armed)

TimeOutGen(callId, operatorId, g) ==
  /\ timerGen[operatorId] = g
  /\ expire(callId, operatorId)
  /\ timerGen' = Flip(fireTimeOut(callId, operatorId).st.armed)

FairNext ==
  \/ \E p \in MainSessions : connectionMade(p)
  \/ \E p \in MainSessions, id \in FairIds : lineReceivedGen(p, "call", id)
  \/ \E p \in MainSessions, cmd \in {"answer", "reject"}, o \in Operators :
       lineReceivedGen(p, cmd, o)
  \/ \E p \in MainSessions, id \in FairIds : lineReceivedGen(p, "hangup", id)
  \/ \E c \in FairIds, o \in Operators, g \in {0, 1} : TimeOutGen(c, o, g)

\* every delayed call that stays pending is eventually run
Delivery ==
  \A c \in FairIds, o \in Operators, g \in {0, 1} :
    WF_vars(TimeOutGen(c, o, g))

FairSpec == Init /\ [][FairNext]_vars /\ Delivery

\* C18: with every pending deadline eventually delivered, whenever operator
\* o rings on call c, eventually o no longer rings on c.
C18_RingingEnds ==
  \A c \in FairIds, o \in Operators :
    (opState[o] = "ringing" /\ currentCall[o] = c)
      ~> ~ (opState[o] = "ringing" /\ currentCall[o] = c)

----------------------------------------------------------------------------
(* Several client sessions.  The factory gives every connection its own    *)
(* protocol object on the one QueueManager, so sessions connect, send      *)
(* lines and disconnect in any interleaving.                               *)

SessionNext ==
  \/ \E p \in Sessions : connectionMade(p)
  \/ \E p \in Sessions : connectionLost(p)
  \/ \E p \in Sessions, id \in FairIds : lineReceived(p, "call", id)
  \/ \E p \in Sessions, cmd \in Commands \ {"call"},
        id \in FairIds \cup Operators : lineReceived(p, cmd, id)
  \/ \E c \in FairIds, o \in Operators : TimeOut(c, o)

SessionSpec == Init /\ [][SessionNext]_vars

\* C23: with several sessions connecting and disconnecting in any
\* interleaving, whenever a ring deadline fires while at least one session
\* is connected, the "ignored by operator" response is pushed to a
\* connected session and the handler completes without a fault.
C23_PushReachesSession ==
  \A c \in CallIds, o \in Operators :
    (<<c, o>> \in delayed /\ connected # {}) =>
      /\ currentClient \in connected
      /\ fireTimeOut(c, o).pushed # Fault
      /\ fireTimeOut(c, o).pushed.lines[1] = <<"ignored by operator", c, o>>

====
